---- MODULE Spec2Model ----
(***************************************************************************)
(* Crime-Sensor: the /upload_video handler of app.py and the alert         *)
(* throttle send_alert, as a state machine.  One request is followed from  *)
(* its arrival to its response.  Every loop iteration of upload_video is   *)
(* one action; the classifier, the Drive upload, the Twilio send and the   *)
(* wall clock are the environment and are chosen nondeterministically.     *)
(*                                                                         *)
(* Confidences are held in thousandths (0.7 is 700) so that the threshold  *)
(* comparison and the rounding of the response stay in the integers.       *)
(***************************************************************************)
EXTENDS Integers, Sequences, FiniteSets, TLC

\* ---------------------------------------------------------------- config
SEQ_LENGTH == 16
CONFIDENCE_THRESHOLD == 700
ALERT_INTERVAL == 10
FRAME_SKIP == 5

\* ---------------------------------------------------------------- bounds
\* Longest video, in physical frames.
MaxFrames == 130

\* Longest video of a request served concurrently with another, in physical
\* frames.
ConcFrames == 105

\* Most windows of one video that the classifier labels "normal".
MaxNormal == 1

\* ------------------------------------------------------------ environment
\* Class labels the classifier can return, and the str.lower / str.upper
\* images the handler computes of them.
Labels == {"Robbery", "stealing", "normal"}

lower(s) ==
    CASE s = "Robbery" -> "robbery"
      [] s = "stealing" -> "stealing"
      [] s = "normal" -> "normal"
      [] OTHER -> s

upper(s) ==
    CASE s = "Robbery" -> "ROBBERY"
      [] s = "stealing" -> "STEALING"
      [] s = "normal" -> "NORMAL"
      [] OTHER -> s

\* What predict_activity can return for a window: a crime label above the
\* threshold, a crime label exactly at the threshold, and a harmless label
\* whose confidence ties with the first.
Predictions == {<<"Robbery", 904>>, <<"stealing", 700>>, <<"normal", 904>>}

\* What predict_activity can return after the predictions preds.
Offered(preds) ==
    {p \in Predictions :
        p[1] = "normal" =>
            Cardinality({i \in 1..Len(preds) : preds[i][1] = "normal"}) < MaxNormal}

\* Seconds that can pass between the last reading of the wall clock and the
\* next call of send_alert: just under the alert interval, the alert interval.
Delays == {ALERT_INTERVAL - 1, ALERT_INTERVAL}

\* Seconds that messages.create can take.
Latencies == {0, 1}

\* The wall clock when the process starts: time() counts from the epoch, so
\* it is at least ALERT_INTERVAL past last_alert_time = 0.
BootTime == ALERT_INTERVAL

\* The choices the environment has at a call: those of a call that is made,
\* one fixed value for a call that is not.
Elapsed(called) == IF called THEN Delays ELSE {0}

Latency(called) == IF called THEN Latencies ELSE {0}

Outcome(called) == IF called THEN BOOLEAN ELSE {TRUE}

None == 0

\* The requests that the threaded server runs at the same time.
Requests == {1, 2}

\* The file every VideoWriter of upload_video is constructed on.
ClipPath == "crime_clip.mp4"

\* out of a concurrent request: None, or a writer on a path, open or released.
NoWriter == [bound |-> FALSE, path |-> "", open |-> FALSE]

\* A request that has just arrived.
NewRequest ==
    [pc |-> "start", site |-> "", at |-> 0, frame_count |-> 0, predictions |-> 0,
     crime_frame_count |-> 0, crime_detected |-> FALSE, out |-> NoWriter]

VARIABLES
    pc,                 \* "start", "loop", "done", "rejected", "failed"
    error,              \* which call raised: "none", "classifier", "upload"
    cap_open,           \* the VideoCapture has not been released
    frame_count,        \* physical frames read
    frame_buffer,       \* deque(maxlen=SEQ_LENGTH) of frames, oldest first
    appended,           \* history: every frame appended to frame_buffer
    classify_calls,     \* history: calls of predict_activity
    all_predictions,    \* list of (pred_class, confidence)
    crime_detected,
    crime_frame_count,
    out,                \* None or the index in writers of the VideoWriter
    writers,            \* history: every VideoWriter constructed
    uploads,            \* history: every upload_to_drive call
    alerts,             \* history: every send_alert call
    clock,              \* the last value time() returned
    last_alert_time,
    response,           \* the JSON body returned, or None
    video_readable,     \* cv2.VideoCapture could open and decode the file
    events,             \* history: the calls on the writer, the uploader and
                        \* the notifier, in the order they were made
    reqs                \* the requests served concurrently: for each, where
                        \* it is in upload_video and its locals

vars == <<pc, error, cap_open, frame_count, frame_buffer, appended,
          classify_calls, all_predictions, crime_detected, crime_frame_count,
          out, writers, uploads, alerts, clock, last_alert_time, response,
          video_readable, events, reqs>>

locals == <<frame_buffer, appended, classify_calls, all_predictions,
            crime_detected, crime_frame_count, out, writers>>

Init ==
    /\ pc = "start"
    /\ error = "none"
    /\ cap_open = FALSE
    /\ frame_count = 0
    /\ frame_buffer = <<>>
    /\ appended = <<>>
    /\ classify_calls = 0
    /\ all_predictions = <<>>
    /\ crime_detected = FALSE
    /\ crime_frame_count = 0
    /\ out = None
    /\ writers = <<>>
    /\ uploads = <<>>
    /\ alerts = <<>>
    /\ clock = BootTime
    /\ last_alert_time = 0
    /\ response = None
    /\ video_readable = TRUE
    /\ events = <<>>
    /\ reqs = [r \in Requests |-> NewRequest]

\* ----------------------------------------------------------- pure helpers
\* Faulty variant: the frame is tested before the counter is incremented.
Decimated_BeforeIncrement(n) == (n - 1) % FRAME_SKIP = 0

\* frame_count % FRAME_SKIP != 0: continue
Decimated(n) == n % FRAME_SKIP = 0

\* Faulty variant: the deque has no maxlen and never evicts.
DequeAppend_Unbounded(buf, x) == Append(buf, x)

\* deque(maxlen=SEQ_LENGTH).append
DequeAppend(buf, x) ==
    IF Len(buf) = SEQ_LENGTH THEN Append(Tail(buf), x) ELSE Append(buf, x)

\* Faulty variant: the window is taken for ready one frame early.
WindowReady_Early(buf) == Len(buf) >= SEQ_LENGTH - 1

\* len(frame_buffer) == SEQ_LENGTH
WindowReady(buf) == Len(buf) = SEQ_LENGTH

\* Faulty variant: a confidence equal to the threshold qualifies.
Qualifies_AtThreshold(p) ==
    /\ lower(p[1]) \in {"robbery", "shoplifting", "stealing"}
    /\ p[2] >= CONFIDENCE_THRESHOLD

\* the test of the detector on one prediction
Qualifies(p) ==
    /\ lower(p[1]) \in {"robbery", "shoplifting", "stealing"}
    /\ p[2] > CONFIDENCE_THRESHOLD

\* Faulty variant: four consecutive qualifying predictions start a recording.
StartsRecording_Early(count, detected) == count >= 4 /\ ~detected

\* Faulty variant: the guard against a second start is missing.
StartsRecording_Unguarded(count, detected) == count >= 5

\* crime_frame_count >= 5 and not crime_detected
StartsRecording(count, detected) == count >= 5 /\ ~detected

\* max(all_predictions, key=lambda x: x[1]): the first element whose key no
\* later one exceeds strictly.
RECURSIVE MaxFrom(_, _, _)
MaxFrom(preds, i, best) ==
    IF i > Len(preds) THEN best
    ELSE MaxFrom(preds, i + 1, IF preds[i][2] > best[2] THEN preds[i] ELSE best)

\* Faulty variant: a later prediction of equal confidence replaces the best one.
RECURSIVE MaxFromLast(_, _, _)
MaxFromLast(preds, i, best) ==
    IF i > Len(preds) THEN best
    ELSE MaxFromLast(preds, i + 1, IF preds[i][2] >= best[2] THEN preds[i] ELSE best)

BestPrediction_Last(preds) ==
    IF preds # <<>> THEN MaxFromLast(preds, 2, preds[1]) ELSE <<"Unknown", 0>>

BestPrediction(preds) ==
    IF preds # <<>> THEN MaxFrom(preds, 2, preds[1]) ELSE <<"Unknown", 0>>

\* round(float(confidence), 2), on thousandths (none of the sampled
\* confidences is a half-way case).
Round2(c) == ((c + 5) \div 10) * 10

Response(preds) ==
    LET best == BestPrediction(preds)
    IN  [prediction |-> best[1], confidence |-> Round2(best[2])]

\* Faulty variant: a call exactly ALERT_INTERVAL after the last send is dropped.
Throttled_Inclusive(t, last) == t - last <= ALERT_INTERVAL

\* time() - last_alert_time < ALERT_INTERVAL
Throttled(t, last) == t - last < ALERT_INTERVAL

\* Faulty variant: the throttle stamp is advanced by a failed send too.
send_alert_StampOnFailure(msg, clk, last, d1, d2, ok) ==
    LET t == clk + d1
    IN  IF Throttled(t, last)
        THEN [clock |-> t, last |-> last,
              entry |-> [msg |-> msg, at |-> t, outcome |-> "dropped", stamp |-> last]]
        ELSE IF ok
        THEN [clock |-> t + d2, last |-> t + d2,
              entry |-> [msg |-> msg, at |-> t, outcome |-> "sent", stamp |-> t + d2]]
        ELSE [clock |-> t, last |-> t,
              entry |-> [msg |-> msg, at |-> t, outcome |-> "failed", stamp |-> t]]

\* send_alert(msg) called when time() last returned clk, with the throttle
\* stamp at last.  d1 and d2 are the seconds that pass before its two
\* readings of the clock; ok tells whether messages.create succeeds.
send_alert(msg, clk, last, d1, d2, ok) ==
    LET t == clk + d1
    IN  IF Throttled(t, last)
        THEN [clock |-> t, last |-> last,
              entry |-> [msg |-> msg, at |-> t, outcome |-> "dropped", stamp |-> last]]
        ELSE IF ok
        THEN [clock |-> t + d2, last |-> t + d2,
              entry |-> [msg |-> msg, at |-> t, outcome |-> "sent", stamp |-> t + d2]]
        ELSE [clock |-> t, last |-> last,
              entry |-> [msg |-> msg, at |-> t, outcome |-> "failed", stamp |-> last]]

\* The calls at the start of a run, in the order of lines 135-137: the
\* writer w is constructed, then send_alert is called with the warning.
RunStartEvents(w) ==
    <<[e |-> "open", w |-> w], [e |-> "warning", w |-> w]>>

\* Faulty variant: the clip is uploaded while its writer is still open.
RunEndEvents_UploadFirst(w, uploaded) ==
    <<[e |-> "upload", w |-> w], [e |-> "release", w |-> w]>>
    \o (IF uploaded
        THEN <<[e |-> "critical", w |-> w], [e |-> "clear", w |-> w]>>
        ELSE <<>>)

\* The calls at the end of a run, in the order of lines 146-149: release,
\* upload_to_drive and, when it returned a link, send_alert with the link and
\* out = None.
RunEndEvents(w, uploaded) ==
    <<[e |-> "release", w |-> w], [e |-> "upload", w |-> w]>>
    \o (IF uploaded
        THEN <<[e |-> "critical", w |-> w], [e |-> "clear", w |-> w]>>
        ELSE <<>>)

\* Faulty variant: the oldest frame of the window is written.
ClipFrame_Oldest(frame, buf) == buf[1]

\* The frame that out.write receives at line 139: the frame just read, not
\* one of the window.
ClipFrame(frame, buf) == frame

\* out.release() on writer w, seen when n predictions have been made
Release(ws, w, n) ==
    [ws EXCEPT ![w].releases = @ + 1,
               ![w].end = IF @ = 0 THEN n ELSE @]

\* ---------------------------------------------------------------- actions
\* request.files.get("video") is empty: 400
NoVideo ==
    /\ pc = "start"
    /\ UNCHANGED reqs
    /\ pc' = "rejected"
    /\ response' = [error |-> "No video uploaded"]
    /\ UNCHANGED <<error, cap_open, frame_count, locals, uploads, alerts,
                   clock, last_alert_time, video_readable, events>>

\* the file is saved and the capture and the locals are set up; a file
\* that cannot be opened or decoded gives a capture whose read() fails
OpenVideo ==
    /\ pc = "start"
    /\ UNCHANGED reqs
    /\ pc' = "loop"
    /\ video_readable' \in BOOLEAN
    /\ cap_open' = TRUE
    /\ frame_count' = 0
    /\ frame_buffer' = <<>>
    /\ all_predictions' = <<>>
    /\ crime_detected' = FALSE
    /\ crime_frame_count' = 0
    /\ out' = None
    /\ UNCHANGED <<error, appended, classify_calls, writers, uploads, alerts,
                   clock, last_alert_time, response, events>>

\* cap.read() has no more frames: leave the loop, release, answer
EndOfVideo ==
    /\ pc = "loop"
    /\ UNCHANGED reqs
    /\ pc' = "done"
    /\ cap_open' = FALSE
    /\ writers' = IF out # None
                  THEN Release(writers, out, Len(all_predictions) + 1)
                  ELSE writers
    /\ events' = IF out # None
                 THEN Append(events, [e |-> "release", w |-> out])
                 ELSE events
    /\ response' = Response(all_predictions)
    /\ UNCHANGED <<error, frame_count, frame_buffer, appended, classify_calls,
                   all_predictions, crime_detected, crime_frame_count, out,
                   uploads, alerts, clock, last_alert_time, video_readable>>

\* a frame is read and skipped by the decimation
SkipFrame ==
    /\ pc = "loop"
    /\ UNCHANGED reqs
    /\ video_readable
    /\ frame_count < MaxFrames
    /\ ~Decimated(frame_count + 1)
    /\ frame_count' = frame_count + 1
    /\ UNCHANGED <<pc, error, cap_open, locals, uploads, alerts, clock,
                   last_alert_time, response, video_readable, events>>

\* a frame is read and buffered; the window is not full yet
BufferFrame ==
    /\ pc = "loop"
    /\ UNCHANGED reqs
    /\ video_readable
    /\ frame_count < MaxFrames
    /\ Decimated(frame_count + 1)
    /\ ~WindowReady(DequeAppend(frame_buffer, frame_count + 1))
    /\ frame_count' = frame_count + 1
    /\ frame_buffer' = DequeAppend(frame_buffer, frame_count + 1)
    /\ appended' = Append(appended, frame_count + 1)
    /\ UNCHANGED <<pc, error, cap_open, classify_calls, all_predictions,
                   crime_detected, crime_frame_count, out, writers, uploads,
                   alerts, clock, last_alert_time, response, video_readable,
                   events>>

\* a frame is read and buffered, and predict_activity raises on the window:
\* nothing in upload_video catches it
PredictError ==
    /\ pc = "loop"
    /\ UNCHANGED reqs
    /\ video_readable
    /\ frame_count < MaxFrames
    /\ Decimated(frame_count + 1)
    /\ WindowReady(DequeAppend(frame_buffer, frame_count + 1))
    /\ frame_count' = frame_count + 1
    /\ frame_buffer' = DequeAppend(frame_buffer, frame_count + 1)
    /\ appended' = Append(appended, frame_count + 1)
    /\ classify_calls' = classify_calls + 1
    /\ pc' = "failed"
    /\ error' = "classifier"
    /\ UNCHANGED <<cap_open, all_predictions, crime_detected,
                   crime_frame_count, out, writers, uploads, alerts, clock,
                   last_alert_time, response, video_readable, events>>

\* a frame is read and buffered, and the window's prediction qualifies
CrimePrediction ==
    /\ pc = "loop"
    /\ UNCHANGED reqs
    /\ video_readable
    /\ frame_count < MaxFrames
    /\ Decimated(frame_count + 1)
    /\ WindowReady(DequeAppend(frame_buffer, frame_count + 1))
    /\ \E p \in Offered(all_predictions) :
        \E d1 \in Elapsed(StartsRecording(crime_frame_count + 1, crime_detected)) :
        \E ok \in Outcome(StartsRecording(crime_frame_count + 1, crime_detected)
                          /\ ~Throttled(clock + d1, last_alert_time)) :
        \E d2 \in Latency(StartsRecording(crime_frame_count + 1, crime_detected)
                          /\ ~Throttled(clock + d1, last_alert_time) /\ ok) :
        LET frame == frame_count + 1
            preds == Append(all_predictions, p)
            count == crime_frame_count + 1
            start == StartsRecording(count, crime_detected)
            detected == start \/ crime_detected
            opened == IF start
                      THEN Append(writers, [start |-> Len(preds), end |-> 0,
                                            releases |-> 0, frames |-> <<>>])
                      ELSE writers
            handle == IF start THEN Len(opened) ELSE out
            sent == send_alert([kind |-> "WARNING", arg |-> upper(p[1])],
                               clock, last_alert_time, d1, d2, ok)
        IN  /\ Qualifies(p)
            /\ frame_count' = frame
            /\ frame_buffer' = DequeAppend(frame_buffer, frame)
            /\ appended' = Append(appended, frame)
            /\ classify_calls' = classify_calls + 1
            /\ all_predictions' = preds
            /\ crime_frame_count' = count
            /\ crime_detected' = detected
            /\ out' = handle
            /\ writers' = IF detected /\ handle # None
                          THEN [opened EXCEPT ![handle].frames =
                                    Append(@, ClipFrame(frame, frame_buffer'))]
                          ELSE opened
            /\ IF start
               THEN /\ alerts' = Append(alerts, sent.entry)
                    /\ clock' = sent.clock
                    /\ last_alert_time' = sent.last
                    /\ events' = events \o RunStartEvents(handle)
               ELSE UNCHANGED <<alerts, clock, last_alert_time, events>>
            /\ UNCHANGED <<pc, error, cap_open, uploads, response,
                           video_readable>>

\* a frame is read and buffered, and the window's prediction does not
\* qualify: the run is reset, and a recording is closed, uploaded, announced
OtherPrediction ==
    /\ pc = "loop"
    /\ UNCHANGED reqs
    /\ video_readable
    /\ frame_count < MaxFrames
    /\ Decimated(frame_count + 1)
    /\ WindowReady(DequeAppend(frame_buffer, frame_count + 1))
    /\ \E p \in Offered(all_predictions) :
        \E uploaded \in Outcome(crime_detected /\ out # None) :
        \E d1 \in Elapsed(crime_detected /\ out # None /\ uploaded) :
        \E ok \in Outcome(crime_detected /\ out # None /\ uploaded
                          /\ ~Throttled(clock + d1, last_alert_time)) :
        \E d2 \in Latency(crime_detected /\ out # None /\ uploaded
                          /\ ~Throttled(clock + d1, last_alert_time) /\ ok) :
        LET frame == frame_count + 1
            preds == Append(all_predictions, p)
            closing == crime_detected /\ out # None
            link == <<"link", Len(uploads) + 1>>
            sent == send_alert([kind |-> "CRITICAL", arg |-> link],
                               clock, last_alert_time, d1, d2, ok)
        IN  /\ ~Qualifies(p)
            /\ frame_count' = frame
            /\ frame_buffer' = DequeAppend(frame_buffer, frame)
            /\ appended' = Append(appended, frame)
            /\ classify_calls' = classify_calls + 1
            /\ all_predictions' = preds
            /\ crime_frame_count' = 0
            /\ crime_detected' = FALSE
            /\ IF closing
               THEN /\ writers' = Release(writers, out, Len(preds))
                    /\ uploads' = Append(uploads, [clip |-> out, ok |-> uploaded])
                    /\ events' = events \o RunEndEvents(out, uploaded)
                    /\ IF uploaded
                       THEN /\ alerts' = Append(alerts, sent.entry)
                            /\ clock' = sent.clock
                            /\ last_alert_time' = sent.last
                            /\ out' = None
                            /\ UNCHANGED <<pc, error>>
                       ELSE /\ pc' = "failed"
                            /\ error' = "upload"
                            /\ UNCHANGED <<alerts, clock, last_alert_time, out>>
               ELSE UNCHANGED <<pc, error, out, writers, uploads, alerts,
                                clock, last_alert_time, events>>
            /\ UNCHANGED <<cap_open, response, video_readable>>

Next ==
    \/ NoVideo
    \/ OpenVideo
    \/ EndOfVideo
    \/ SkipFrame
    \/ BufferFrame
    \/ PredictError
    \/ CrimePrediction
    \/ OtherPrediction

Spec == Init /\ [][Next]_vars

\* ------------------------------------------------- concurrent requests
\* Two requests in the threads of the server.  A step of a request runs
\* upload_video up to its next access to what the requests share: the clock
\* and last_alert_time in send_alert, the file of the clip, the uploader and
\* the notifier.  The frames a request reads and skips before its next full
\* window are part of the step that classifies that window.

\* The variables of the request followed alone.
single == <<pc, error, cap_open, frame_count, frame_buffer, appended,
            classify_calls, all_predictions, crime_detected, crime_frame_count,
            out, writers, response, video_readable, events>>

\* frame_count at the next frame that is classified, after frame_count = n at
\* the last one.
NextWindow(n) ==
    IF n < SEQ_LENGTH * FRAME_SKIP THEN SEQ_LENGTH * FRAME_SKIP ELSE n + FRAME_SKIP

\* Where a request goes on when send_alert returns: to out.write after the
\* warning, to out = None and the next frame after the confirmation.
Returned(q) ==
    IF q.site = "warning"
    THEN [q EXCEPT !.pc = "write"]
    ELSE [q EXCEPT !.pc = "loop", !.out = NoWriter]

\* the capture and the locals are set up
ConcOpen(r) ==
    /\ reqs[r].pc = "start"
    /\ reqs' = [reqs EXCEPT ![r].pc = "loop"]
    /\ UNCHANGED <<single, uploads, alerts, clock, last_alert_time>>

\* cap.read() has no more frames: release and answer
ConcEnd(r) ==
    /\ reqs[r].pc = "loop"
    /\ reqs' = [reqs EXCEPT ![r].pc = "done", ![r].out.open = FALSE]
    /\ UNCHANGED <<single, uploads, alerts, clock, last_alert_time>>

\* predict_activity raises on the next full window
ConcPredictError(r) ==
    /\ reqs[r].pc = "loop"
    /\ NextWindow(reqs[r].frame_count) <= ConcFrames
    /\ reqs' = [reqs EXCEPT ![r].pc = "failed",
                            ![r].frame_count = NextWindow(@)]
    /\ UNCHANGED <<single, uploads, alerts, clock, last_alert_time>>

\* the next full window is classified and the detector takes the prediction,
\* up to the writer it opens or releases
ConcPredict(r) ==
    /\ reqs[r].pc = "loop"
    /\ NextWindow(reqs[r].frame_count) <= ConcFrames
    /\ \E p \in Predictions :
        LET q == [reqs[r] EXCEPT !.frame_count = NextWindow(@),
                                 !.predictions = @ + 1]
            count == q.crime_frame_count + 1
        IN  reqs' = [reqs EXCEPT ![r] =
                IF Qualifies(p)
                THEN IF StartsRecording(count, q.crime_detected)
                     THEN [q EXCEPT !.crime_frame_count = count,
                                    !.crime_detected = TRUE,
                                    !.out = [bound |-> TRUE, path |-> ClipPath,
                                             open |-> TRUE],
                                    !.pc = "check",
                                    !.site = "warning"]
                     ELSE [q EXCEPT !.crime_frame_count = count,
                                    !.pc = IF q.crime_detected /\ q.out.bound
                                           THEN "write" ELSE "loop"]
                ELSE IF q.crime_detected
                     THEN [q EXCEPT !.crime_frame_count = 0,
                                    !.crime_detected = FALSE,
                                    !.out.open = FALSE,
                                    !.pc = IF q.out.bound THEN "upload" ELSE "loop"]
                     ELSE [q EXCEPT !.crime_frame_count = 0]]
    /\ UNCHANGED <<single, uploads, alerts, clock, last_alert_time>>

\* out.write(frame)
ConcWrite(r) ==
    /\ reqs[r].pc = "write"
    /\ reqs' = [reqs EXCEPT ![r].pc = "loop"]
    /\ UNCHANGED <<single, uploads, alerts, clock, last_alert_time>>

\* upload_to_drive("crime_clip.mp4") returns a link or raises
ConcUpload(r) ==
    /\ reqs[r].pc = "upload"
    /\ \E uploaded \in BOOLEAN :
        /\ uploads' = Append(uploads,
                [clip |-> reqs[r].out.path, ok |-> uploaded, by |-> r,
                 open_in |-> {o \in Requests \ {r} :
                                /\ reqs[o].out.open
                                /\ reqs[o].out.path = reqs[r].out.path}])
        /\ reqs' = [reqs EXCEPT ![r].pc = IF uploaded THEN "check" ELSE "failed",
                                ![r].site = "critical"]
    /\ UNCHANGED <<single, alerts, clock, last_alert_time>>

\* send_alert, line 74: the clock is read and compared with last_alert_time
ConcCheck(r) ==
    /\ reqs[r].pc = "check"
    /\ \E d1 \in Delays :
        LET t == clock + d1
        IN  /\ clock' = t
            /\ IF Throttled(t, last_alert_time)
               THEN /\ alerts' = Append(alerts, [msg |-> [kind |-> reqs[r].site],
                                                by |-> r, at |-> t,
                                                outcome |-> "dropped"])
                    /\ reqs' = [reqs EXCEPT ![r] = Returned(reqs[r])]
               ELSE /\ reqs' = [reqs EXCEPT ![r].pc = "create", ![r].at = t]
                    /\ UNCHANGED alerts
    /\ UNCHANGED <<single, uploads, last_alert_time>>

\* send_alert, lines 77-81: messages.create sends or raises
ConcCreate(r) ==
    /\ reqs[r].pc = "create"
    /\ \E ok \in BOOLEAN :
        /\ alerts' = Append(alerts, [msg |-> [kind |-> reqs[r].site], by |-> r,
                                     at |-> reqs[r].at,
                                     outcome |-> IF ok THEN "sent" ELSE "failed"])
        /\ reqs' = [reqs EXCEPT ![r] = IF ok THEN [@ EXCEPT !.pc = "stamp"]
                                       ELSE Returned(@)]
    /\ UNCHANGED <<single, uploads, clock, last_alert_time>>

\* send_alert, line 82: last_alert_time = time()
ConcStamp(r) ==
    /\ reqs[r].pc = "stamp"
    /\ \E d2 \in Latencies :
        /\ clock' = clock + d2
        /\ last_alert_time' = clock + d2
    /\ reqs' = [reqs EXCEPT ![r] = Returned(@)]
    /\ UNCHANGED <<single, uploads, alerts>>

NextConc ==
    \E r \in Requests :
        \/ ConcOpen(r)
        \/ ConcEnd(r)
        \/ ConcPredictError(r)
        \/ ConcPredict(r)
        \/ ConcWrite(r)
        \/ ConcUpload(r)
        \/ ConcCheck(r)
        \/ ConcCreate(r)
        \/ ConcStamp(r)

SpecConc == Init /\ [][NextConc]_vars

\* ------------------------------------------------- vocabulary of the claims
\* A prediction qualifies: its label is robbery, shoplifting or stealing in
\* any letter case and its confidence is above 0.7.
IsQualifying(p) ==
    /\ p[1] \in {"robbery", "Robbery", "ROBBERY", "shoplifting", "Shoplifting",
                 "SHOPLIFTING", "stealing", "Stealing", "STEALING"}
    /\ p[2] > CONFIDENCE_THRESHOLD

Q(i) == IsQualifying(all_predictions[i])

NumPreds == Len(all_predictions)

\* The predictions at which a run of qualifying predictions reaches five.
RunStarts ==
    {i \in 5..NumPreds :
        /\ \A j \in (i - 4)..i : Q(j)
        /\ (i = 5 \/ ~Q(i - 5))}

\* The non-qualifying predictions after prediction i.
Breaks(i) == {j \in (i + 1)..NumPreds : ~Q(j)}

Min(S) == CHOOSE x \in S : \A y \in S : x <= y

Max(S) == CHOOSE x \in S : \A y \in S : y <= x

Episodes == 1..Len(writers)

OpenWriters == {w \in Episodes : writers[w].releases = 0}

\* The episodes that the end of the video closed.
ClosedByEnd == {w \in Episodes : writers[w].end = NumPreds + 1}

Sent(kind) ==
    {a \in 1..Len(alerts) : alerts[a].msg.kind = kind /\ alerts[a].outcome = "sent"}

\* ------------------------------------------------------------------ claims
\* C1: a recording episode starts exactly at the predictions where a run of
\* consecutive qualifying predictions reaches five, it ends at the first
\* non-qualifying prediction after its start or else at the end of the video,
\* and at most one episode is open at a time.
C1_EpisodePerRun ==
    /\ {writers[w].start : w \in Episodes} = RunStarts
    /\ \A v, w \in Episodes : v < w => writers[v].start < writers[w].start
    /\ \A w \in Episodes :
        writers[w].end = IF Breaks(writers[w].start) # {}
                         THEN Min(Breaks(writers[w].start))
                         ELSE IF pc = "done" THEN NumPreds + 1 ELSE 0
    /\ Cardinality({w \in Episodes : writers[w].end = 0}) <= 1
    /\ pc = "loop" => (crime_detected <=> \E w \in Episodes : writers[w].end = 0)

C1_Witness ==
    /\ pc = "loop"
    /\ Len(writers) = 2
    /\ writers[1].end = 6
    /\ writers[2].start = 11
    /\ crime_detected

\* C2: never more than one writer is open, no writer is released twice, and
\* once the episode has ended, by a non-qualifying prediction or by the end
\* of the video, every writer that was opened has been released exactly once.
C2_WriterLifecycle ==
    /\ Cardinality(OpenWriters) <= 1
    /\ \A w \in Episodes : writers[w].releases <= 1
    /\ \A w \in OpenWriters : out = w
    /\ (pc = "done" \/ ~crime_detected) => \A w \in Episodes : writers[w].releases = 1

C2_Witness ==
    /\ pc = "done"
    /\ Len(writers) = 2
    /\ writers[1].end <= NumPreds
    /\ writers[2].end = NumPreds + 1
    /\ writers[1].releases = 1
    /\ writers[2].releases = 1

\* C3: when the video ends during a recording, the clip is handed to
\* upload_to_drive and, the upload done, the alert with the link is
\* attempted before upload_video returns.
C3_EndOfVideoHandoff ==
    pc = "done" =>
        \A w \in ClosedByEnd :
            \E u \in 1..Len(uploads) :
                /\ uploads[u].clip = w
                /\ uploads[u].ok =>
                    \E a \in 1..Len(alerts) :
                        alerts[a].msg = [kind |-> "CRITICAL", arg |-> <<"link", u>>]

\* C4: two send_alert calls less than ALERT_INTERVAL apart make exactly one
\* external send (one call of messages.create), and two calls at least
\* ALERT_INTERVAL apart both send.
C4_ThrottleAsClaimed ==
    \A i, j \in 1..Len(alerts) :
        i < j =>
            LET si == alerts[i].outcome # "dropped"
                sj == alerts[j].outcome # "dropped"
            IN  IF alerts[j].at - alerts[i].at < ALERT_INTERVAL
                THEN (si /\ ~sj) \/ (sj /\ ~si)
                ELSE si /\ sj

\* The time the last successful send before call j was completed, 0 if none.
LastSendBefore(j) ==
    LET S == {i \in 1..(j - 1) : alerts[i].outcome = "sent"}
    IN  IF S = {} THEN 0 ELSE alerts[Max(S)].stamp

\* C4, amended: two send_alert calls less than ALERT_INTERVAL apart never
\* both send; a call is dropped exactly when it comes less than
\* ALERT_INTERVAL after the completion of the last successful send, and
\* every other call attempts the external send.
C4_Throttle ==
    /\ \A i, j \in 1..Len(alerts) :
        (i < j /\ alerts[j].at - alerts[i].at < ALERT_INTERVAL) =>
            ~(alerts[i].outcome = "sent" /\ alerts[j].outcome = "sent")
    /\ \A j \in 1..Len(alerts) :
        alerts[j].outcome = "dropped" <=> alerts[j].at - LastSendBefore(j) < ALERT_INTERVAL

C4_Witness ==
    /\ Len(alerts) = 3
    /\ alerts[1].outcome = "sent"
    /\ alerts[2].outcome = "dropped"
    /\ alerts[3].outcome = "sent"
    /\ alerts[3].at - alerts[2].at < ALERT_INTERVAL

\* C5: the response names the prediction of maximum confidence among all
\* predictions of the video, the earliest of them when several share the
\* maximum, with its confidence rounded to two decimals.
C5_BestPrediction ==
    (pc = "done" /\ NumPreds > 0) =>
        \E i \in 1..NumPreds :
            /\ \A j \in 1..NumPreds : all_predictions[j][2] <= all_predictions[i][2]
            /\ \A j \in 1..(i - 1) : all_predictions[j][2] < all_predictions[i][2]
            /\ response.prediction = all_predictions[i][1]
            /\ response.confidence % 10 = 0
            /\ response.confidence - all_predictions[i][2] \in -5..4

C5_Witness ==
    /\ pc = "done"
    /\ NumPreds >= 3
    /\ all_predictions[1] = <<"stealing", 700>>
    /\ all_predictions[2] = <<"normal", 904>>
    /\ all_predictions[3] = <<"Robbery", 904>>
    /\ response = [prediction |-> "normal", confidence |-> 900]

\* C6: a video with fewer than SEQ_LENGTH decimated frames never reaches the
\* classifier, opens no writer and sends no alert, and its response is the
\* sentinel ("Unknown", 0.0).
C6_ShortVideo ==
    frame_count \div FRAME_SKIP < SEQ_LENGTH =>
        /\ classify_calls = 0
        /\ all_predictions = <<>>
        /\ writers = <<>>
        /\ uploads = <<>>
        /\ alerts = <<>>
        /\ pc = "done" => response = [prediction |-> "Unknown", confidence |-> 0]

C6_Witness ==
    /\ pc = "done"
    /\ frame_count = 79
    /\ response = [prediction |-> "Unknown", confidence |-> 0]

\* C7: the frames appended to the window are exactly those whose 1-based
\* read counter is a multiple of FRAME_SKIP, in read order:
\* floor(frames read / FRAME_SKIP) of them.
C7_Decimation ==
    /\ Len(appended) = frame_count \div FRAME_SKIP
    /\ \A i \in 1..Len(appended) : appended[i] = FRAME_SKIP * i

C7_Witness ==
    /\ pc = "done"
    /\ frame_count = 129
    /\ Len(appended) = 25

\* C8: when all the predictions of a video, five or more, are the same
\* qualifying prediction, one episode starts at the 5th prediction, one clip
\* is recorded, one start alert and, after the end of the video, one end
\* alert with the upload link are sent, and the response is that prediction.
C8_AllQualifying ==
    (/\ pc = "done"
     /\ NumPreds >= 5
     /\ \A i \in 1..NumPreds : Q(i) /\ all_predictions[i] = all_predictions[1]) =>
        /\ Len(writers) = 1
        /\ writers[1].start = 5
        /\ Cardinality(Sent("WARNING")) = 1
        /\ Cardinality(Sent("CRITICAL")) = 1
        /\ \A a \in Sent("CRITICAL") :
            \E u \in 1..Len(uploads) :
                uploads[u].ok /\ alerts[a].msg.arg = <<"link", u>>
        /\ response.prediction = all_predictions[1][1]

\* C9: in a video without any qualifying prediction no writer is opened and
\* neither upload_to_drive nor send_alert is called; the response is a
\* prediction of highest confidence, or the sentinel when there is none.
C9_NoQualifying ==
    (\A i \in 1..NumPreds : ~Q(i)) =>
        /\ writers = <<>>
        /\ out = None
        /\ uploads = <<>>
        /\ alerts = <<>>
        /\ (pc = "done" /\ NumPreds = 0) =>
                response = [prediction |-> "Unknown", confidence |-> 0]
        /\ (pc = "done" /\ NumPreds > 0) =>
                \E i \in 1..NumPreds :
                    /\ \A j \in 1..NumPreds :
                        all_predictions[j][2] <= all_predictions[i][2]
                    /\ response.prediction = all_predictions[i][1]

C9_Witness ==
    /\ pc = "done"
    /\ NumPreds = 11
    /\ \A i \in 1..NumPreds : ~Q(i)
    /\ \A i \in 1..5 : all_predictions[i] = <<"stealing", 700>>
    /\ response.prediction = "normal"

\* C10: a failure of predict_activity on one window does not abort the
\* request: the loop goes on with the next frame and the response is still
\* given.
C10_FailSoft ==
    classify_calls > NumPreds => pc \in {"loop", "done"}

\* C11: a failure of upload_to_drive at the end of a run is recovered: no
\* confirmation alert is sent for that clip, the loop goes on with the
\* remaining frames and the response is still given.
C11_UploadRecovered ==
    \A u \in 1..Len(uploads) :
        ~uploads[u].ok =>
            /\ \A a \in 1..Len(alerts) :
                    alerts[a].msg.kind = "CRITICAL" =>
                        alerts[a].msg.arg # <<"link", u>>
            /\ pc \in {"loop", "done"}

\* The number of consecutive qualifying predictions that end at prediction i.
RECURSIVE RunEndingAt(_)
RunEndingAt(i) == IF i = 0 \/ ~Q(i) THEN 0 ELSE 1 + RunEndingAt(i - 1)

\* The number of qualifying predictions the predictions end with.
TrailingRun == RunEndingAt(NumPreds)

\* C12: a failed send leaves last_alert_time as it was, so that only
\* successful sends throttle later calls, and a successful send sets it to
\* the time read after the send; whatever the outcome of the sends, the run
\* counter, the recording flag, the writer handle and the response are those
\* the predictions alone determine.
C12_NotificationFailure ==
    /\ last_alert_time = LastSendBefore(Len(alerts) + 1)
    /\ \A j \in 1..Len(alerts) :
        alerts[j].outcome = "sent" => alerts[j].stamp >= alerts[j].at
    /\ (alerts # <<>> /\ alerts[Len(alerts)].outcome = "sent") =>
            last_alert_time = clock
    /\ pc = "loop" =>
        /\ crime_frame_count = TrailingRun
        /\ crime_detected <=> TrailingRun >= 5
        /\ out # None <=> TrailingRun >= 5
    /\ (pc = "done" /\ NumPreds > 0) =>
        /\ \E i \in 1..NumPreds : response.prediction = all_predictions[i][1]
        /\ \A i \in 1..NumPreds : response.confidence + 5 > all_predictions[i][2]

C12_Witness ==
    /\ pc = "done"
    /\ Len(alerts) = 2
    /\ alerts[1].outcome = "failed"
    /\ alerts[2].outcome = "sent"
    /\ alerts[2].at - alerts[1].at < ALERT_INTERVAL
    /\ last_alert_time = alerts[2].stamp

\* C13: a video that cannot be opened or decoded never gets the normal
\* prediction response: the request fails.
C13_UnreadableInput ==
    ~video_readable => pc # "done"

\* C14: when the classifier or the upload fails, the capture is released and
\* no writer is left open when upload_video terminates.
C14_CleanupOnError ==
    pc = "failed" =>
        /\ ~cap_open
        /\ OpenWriters = {}

\* C16: the window never exceeds SEQ_LENGTH frames and holds the most recent
\* decimated frames, oldest first; the classifier is called once for every
\* decimated frame from the SEQ_LENGTH-th on and never before, and each call
\* that returns gives one prediction: D decimated frames give
\* max(0, D - SEQ_LENGTH + 1) predictions.
C16_SlidingWindow ==
    LET D == Len(appended)
        L == Len(frame_buffer)
    IN  /\ L = IF D < SEQ_LENGTH THEN D ELSE SEQ_LENGTH
        /\ \A i \in 1..L : frame_buffer[i] = appended[D - L + i]
        /\ classify_calls = IF D >= SEQ_LENGTH THEN D - SEQ_LENGTH + 1 ELSE 0
        /\ error # "classifier" => NumPreds = classify_calls

C16_Witness ==
    /\ pc = "done"
    /\ Len(appended) = 26
    /\ NumPreds = 11
    /\ Len(frame_buffer) = SEQ_LENGTH
    /\ frame_buffer[1] = 55

NumEvents(kind) == Cardinality({k \in 1..Len(events) : events[k].e = kind})

\* C17: at the end of a run by a non-qualifying prediction the writer is
\* released, then the clip is uploaded, then the confirmation alert is
\* attempted, then the handle is cleared; the confirmation alert is attempted
\* only right after an upload that returned a link, and the warning alert
\* only at a run start, right after the writer was opened.
C17_RunEndOrder ==
    /\ \A k \in 1..Len(events) :
        LET ev == events[k]
            before == IF k > 1 THEN events[k - 1] ELSE [e |-> "none", w |-> 0]
        IN  /\ ev.e = "upload" => before = [e |-> "release", w |-> ev.w]
            /\ ev.e = "critical" =>
                /\ before = [e |-> "upload", w |-> ev.w]
                /\ \E u \in 1..Len(uploads) :
                    /\ uploads[u].clip = ev.w
                    /\ uploads[u].ok
                    /\ \E a \in 1..Len(alerts) :
                        alerts[a].msg = [kind |-> "CRITICAL", arg |-> <<"link", u>>]
            /\ ev.e = "clear" => before = [e |-> "critical", w |-> ev.w]
            /\ ev.e = "warning" =>
                /\ before = [e |-> "open", w |-> ev.w]
                /\ RunEndingAt(writers[ev.w].start) = 5
    /\ \A w \in Episodes :
        writers[w].end \in 1..NumPreds =>
            \E k \in 1..Len(events) :
                /\ events[k] = [e |-> "release", w |-> w]
                /\ k < Len(events)
                /\ events[k + 1] = [e |-> "upload", w |-> w]
    /\ \A u \in 1..Len(uploads) :
        uploads[u].ok =>
            \E k \in 2..(Len(events) - 1) :
                /\ events[k - 1] = [e |-> "upload", w |-> uploads[u].clip]
                /\ events[k] = [e |-> "critical", w |-> uploads[u].clip]
                /\ events[k + 1] = [e |-> "clear", w |-> uploads[u].clip]
    /\ Cardinality({a \in 1..Len(alerts) : alerts[a].msg.kind = "WARNING"})
            = Len(writers)
    /\ NumEvents("warning") = Len(writers)
    /\ Cardinality({a \in 1..Len(alerts) : alerts[a].msg.kind = "CRITICAL"})
            = NumEvents("critical")

C17_Witness ==
    /\ Len(events) = 6
    /\ events[3].e = "release"
    /\ events[4].e = "upload"
    /\ events[5].e = "critical"
    /\ events[6].e = "clear"
    /\ out = None

\* The frame read when prediction k was made.
FrameOf(k) == FRAME_SKIP * (SEQ_LENGTH - 1 + k)

\* C18: the frames written to a clip are exactly the frames of the 5th and
\* the later consecutive qualifying predictions of its run, in order; the
\* frame whose prediction ends the run is not written, and nothing is
\* written outside a recording.
C18_ClipContent ==
    \A w \in Episodes :
        LET s == writers[w].start
            last == IF Breaks(s) # {} THEN Min(Breaks(s)) - 1 ELSE NumPreds
        IN  /\ RunEndingAt(s) = 5
            /\ writers[w].frames = [i \in 1..(last - s + 1) |-> FrameOf(s + i - 1)]

C18_Witness ==
    /\ Len(writers) = 1
    /\ writers[1].frames = <<100, 105, 110>>
    /\ writers[1].end = 8

\* C19: after every loop iteration crime_detected holds exactly when out is
\* a writer that is open, crime_detected implies a run counter of 5 or more,
\* and after a non-qualifying prediction the counter is 0 and crime_detected
\* is false.
C19_LoopInvariant ==
    pc = "loop" =>
        /\ crime_detected <=> (out # None /\ out \in OpenWriters)
        /\ crime_detected => crime_frame_count >= 5
        /\ (NumPreds > 0 /\ ~Q(NumPreds)) =>
                (crime_frame_count = 0 /\ ~crime_detected)

C19_Witness ==
    /\ pc = "loop"
    /\ crime_detected
    /\ crime_frame_count = 6
    /\ out = 1
    /\ out \in OpenWriters

\* C15: with two requests served at the same time, the throttle still holds
\* across them: two send_alert calls of different requests that read the
\* clock less than ALERT_INTERVAL apart never both send.
C15_ThrottleAcrossRequests ==
    \A i, j \in 1..Len(alerts) :
        (/\ alerts[i].by # alerts[j].by
         /\ alerts[i].at <= alerts[j].at
         /\ alerts[j].at - alerts[i].at < ALERT_INTERVAL) =>
            ~(alerts[i].outcome = "sent" /\ alerts[j].outcome = "sent")

\* C20: two requests that record at the same time never have open writers on
\* the same clip file, and no request uploads a clip file on which the writer
\* of another request is still open.
C20_ClipIsolation ==
    /\ \A r, o \in Requests :
        (r # o /\ reqs[r].out.open /\ reqs[o].out.open) =>
            reqs[r].out.path # reqs[o].out.path
    /\ \A u \in 1..Len(uploads) : uploads[u].open_in = {}

====
